---- MODULE Spec2Model ----
(***************************************************************************)
(* Model of app.py, the Open ENOW Streamlit dashboard.                     *)
(*                                                                         *)
(* The script is re-executed from top to bottom on every interaction.  The *)
(* state that survives a rerun is st.session_state.plot_mode and the two   *)
(* cached panels; everything else is recomputed by the run.  The start of  *)
(* a run renders the mode buttons (button_type).  One action               *)
(* models one complete run of the script in one display mode, its inputs   *)
(* being the widget selections of that run.  The tables and the outcome of *)
(* the last run are kept in variables so that they can be inspected.       *)
(***************************************************************************)
EXTENDS Integers, Sequences, FiniteSets, TLC

VARIABLES open_enow_data, comparison_data, plot_mode, button_type, sel,
          base_filtered_df, path, chart_data_to_download, plot_df, results, stats,
          outcome

vars == <<open_enow_data, comparison_data, plot_mode, button_type, sel,
          base_filtered_df, path, chart_data_to_download, plot_df, results, stats,
          outcome>>

(***************************************************************************)
(* Bounds of the model.                                                    *)
(***************************************************************************)
MaxVal == 2
NumStates == 4
NumYears == 2

(***************************************************************************)
(* Values.  A metric cell is a non-negative number or NaN (pd.to_numeric   *)
(* with errors='coerce').  None is what a loader returns for a missing     *)
(* file.                                                                   *)
(***************************************************************************)
NaN == -1
Val == {NaN} \cup (0..MaxVal)
None == [loaded |-> FALSE, rows |-> <<>>]
Loaded(rows) == [loaded |-> TRUE, rows |-> rows]
NoStr == "None"
FirstYear == 2020
Years == FirstYear..(FirstYear + NumYears - 1)
Million == 1000000
TopN == 3

(***************************************************************************)
(* Program constants.                                                      *)
(***************************************************************************)
button_map ==
  [l \in {"States", "Counties", "Regions", "Compare", "Error Analysis"} |->
     CASE l = "States" -> "State Estimates from Public QCEW Data"
       [] l = "Counties" -> "County Estimates from Public QCEW Data"
       [] l = "Regions" -> "Regional Estimates from Public QCEW Data"
       [] l = "Compare" -> "Compare to original ENOW"
       [] l = "Error Analysis" -> "Error Analysis"]

estimate_modes == {"State Estimates from Public QCEW Data",
                   "County Estimates from Public QCEW Data",
                   "Regional Estimates from Public QCEW Data"}

DisplayMetrics == {"Employment", "Wages (not inflation-adjusted)", "Real Wages",
                   "Establishments", "GDP (nominal)", "Real GDP"}

METRIC_MAP ==
  [d \in DisplayMetrics |->
     CASE d = "Employment" -> "Employment"
       [] d = "Wages (not inflation-adjusted)" -> "Wages"
       [] d = "Real Wages" -> "RealWages"
       [] d = "Establishments" -> "Establishments"
       [] d = "GDP (nominal)" -> "GDP"
       [] d = "Real GDP" -> "RealGDP"]

\* The metrics the modelled user picks in the metric selectbox.
MetricInputs == {"Employment", "GDP (nominal)"}

\* The metric columns a row of the model carries: those a run can select.
InternalMetrics == {METRIC_MAP[d] : d \in MetricInputs}

\* "Wages" in selected_display_metric or "GDP" in selected_display_metric
IsCurrencyMetric(d) ==
  d \in {"Wages (not inflation-adjusted)", "Real Wages", "GDP (nominal)", "Real GDP"}

(***************************************************************************)
(* Names, in alphabetical order (the order sorted() and groupby produce).  *)
(***************************************************************************)
Alphabet == <<"All Other Countys", "All Other Regions", "All Other States",
              "Boat Dealers", "Guam", "Gulf", "Iowa", "Kent", "Lee", "ME",
              "Maine", "Marinas", "Marine Transportation", "Northeast",
              "Ohio", "Pacific", "Seafood Markets", "TX", "Texas", "Tourism",
              "Utah", "West">>

\* The states of the panel in the order of their rows in the file.
StateNames == <<"Texas", "Maine", "Ohio", "Iowa", "Utah", "Guam">>
PanelStates == [i \in 1..NumStates |-> StateNames[i]]

(***************************************************************************)
(* Generic helpers on sequences (data frames are sequences of rows).       *)
(***************************************************************************)
Range(s) == {s[i] : i \in 1..Len(s)}

RECURSIVE SumSeq(_)
SumSeq(s) == IF s = <<>> THEN 0 ELSE Head(s) + SumSeq(Tail(s))

RECURSIVE FilterSeq(_, _)
\* df[mask]: the rows whose index is in keep, in their original order
FilterSeq(s, keep) ==
  IF s = <<>> THEN <<>>
  ELSE LET rest == FilterSeq(Tail(s), {i - 1 : i \in keep \ {1}})
       IN IF 1 \in keep THEN <<Head(s)>> \o rest ELSE rest

\* df[pred(row)]
Where(df, P(_)) == SelectSeq(df, P)

RECURSIVE Flatten(_)
Flatten(ss) == IF ss = <<>> THEN <<>> ELSE Head(ss) \o Flatten(Tail(ss))

\* Series.sum(): NaN cells are skipped, the sum of nothing is 0
SumSkipNaN(cells) == SumSeq(Where(cells, LAMBDA v : v # NaN))

\* Series.sum(min_count=1): NaN unless at least one cell is not NaN
SumMinCount1(cells) ==
  IF \A i \in 1..Len(cells) : cells[i] = NaN THEN NaN ELSE SumSkipNaN(cells)

Column(df, f(_)) == [i \in 1..Len(df) |-> f(df[i])]

MinYear(df) == CHOOSE y \in {df[i].Year : i \in 1..Len(df)} :
                 \A i \in 1..Len(df) : y <= df[i].Year
MaxYear(df) == CHOOSE y \in {df[i].Year : i \in 1..Len(df)} :
                 \A i \in 1..Len(df) : y >= df[i].Year

\* the names of a set that occur in Alphabet, as Alphabet orders them
SortedNames(S) == Where(Alphabet, LAMBDA n : n \in S)

(***************************************************************************)
(* The Open ENOW panel (load_open_enow_data).  A row carries the renamed   *)
(* columns; geoType is the copy of the file's geoType column that the      *)
(* loader adds back next to GeoScale, so the two always agree.             *)
(***************************************************************************)
OpenRow(scale, name, st, agg, unit, yr, v) ==
  [GeoScale |-> scale, geoType |-> scale, GeoName |-> name, stateName |-> st,
   aggregation |-> agg, OceanSector |-> unit, Year |-> yr,
   Open |-> [m \in InternalMetrics |-> v]]

Reversed == MaxVal + 1
Profiles == {NaN, 0, Reversed}

\* The cell of the i-th of n places in year y: the first year takes f, a
\* later year is uniformly NaN, uniformly 0, or f in reverse order.
Cell(f, p, i, y) ==
  LET j == ((i - 1) % NumStates) + 1
  IN IF y = FirstYear THEN f[j]
     ELSE IF p = Reversed THEN f[NumStates + 1 - j] ELSE p

RegionNames == <<"Gulf", "Pacific", "Northeast", "West">>
IndustryNames == <<"Seafood Markets", "Marinas", "Boat Dealers">>
CountyNames == <<<<"Lee", "Texas">>, <<"Lee", "Maine">>, <<"Kent", "Texas">>>>
YearSeq == [k \in 1..NumYears |-> FirstYear + k - 1]

\* The rows of one year of the file, in file order.
OpenRowsOfYear(f, p, y) ==
  [i \in 1..NumStates |->
     OpenRow("State", PanelStates[i], PanelStates[i], "Sector", "Tourism", y,
             Cell(f, p, i, y))]
  \o [i \in 1..2 |->
     OpenRow("State", PanelStates[i], PanelStates[i], "Sector",
             "Marine Transportation", y, Cell(f, p, i + 1, y))]
  \o [i \in 1..Len(IndustryNames) |->
     OpenRow("State", "Texas", "Texas", "Industry", IndustryNames[i], y,
             Cell(f, p, i, y))]
  \o [i \in 1..Len(RegionNames) |->
     OpenRow("Region", RegionNames[i], NoStr, "Sector", "Tourism", y,
             Cell(f, p, i + 2, y))]
  \o <<OpenRow("Region", "Gulf", NoStr, "Sector", "Marine Transportation", y,
               Cell(f, p, 1, y))>>
  \o [i \in 1..Len(CountyNames) |->
     OpenRow("County", CountyNames[i][1], CountyNames[i][2], "Sector",
             "Tourism", y, Cell(f, p, i + 1, y))]
  \o <<OpenRow("County", "Lee", "Texas", "Sector", "Marine Transportation", y,
               Cell(f, p, 2, y)),
       OpenRow("County", "Lee", "Texas", "Industry", "Marinas", y,
               Cell(f, p, 3, y))>>

OpenPanel(f, p) == Flatten([k \in 1..NumYears |-> OpenRowsOfYear(f, p, YearSeq[k])])

DefaultF == [i \in 1..NumStates |-> IF i % 2 = 1 THEN 1 ELSE MaxVal]
DefaultOpen == Loaded(OpenPanel(DefaultF, Reversed))

(***************************************************************************)
(* The comparison panel (load_comparison_data).  A Sector row has no       *)
(* OceanIndustry (a null cell).                                            *)
(***************************************************************************)
ComparisonMetrics == InternalMetrics \ {"RealWages"}

CmpRow(scale, name, st, agg, sector, industry, yr, t) ==
  [GeoScale |-> scale, GeoName |-> name, state |-> st, aggregation |-> agg,
   OceanSector |-> sector, OceanIndustry |-> industry, Year |-> yr,
   Open |-> [m \in ComparisonMetrics |-> t[1]],
   oldENOW |-> [m \in ComparisonMetrics |-> t[2]],
   noimpute |-> [m \in ComparisonMetrics |-> t[3]]]

\* The (Open, oldENOW, noimpute) cells of the i-th place in year y: the first
\* year takes t rotated by the place, a later year is all NaN, all 0, or t
\* with estimate and reference exchanged.
Triple(t, q, i, y) ==
  LET rot == <<t[((i - 1) % 3) + 1], t[(i % 3) + 1], t[((i + 1) % 3) + 1]>>
  IN IF y = FirstYear THEN rot
     ELSE IF q = Reversed THEN <<rot[2], rot[1], rot[3]>> ELSE <<q, q, q>>

CmpRowsOfYear(t, q, y) ==
  <<CmpRow("State", "Texas", "TX", "Sector", "Tourism", NoStr, y, Triple(t, q, 1, y)),
    CmpRow("State", "Maine", "ME", "Sector", "Tourism", NoStr, y, Triple(t, q, 2, y)),
    CmpRow("State", "Texas", "TX", "Sector", "Marine Transportation", NoStr, y,
           Triple(t, q, 3, y)),
    CmpRow("State", "Texas", "TX", "Industry", "Tourism", "Marinas", y,
           Triple(t, q, 2, y)),
    CmpRow("State", "Texas", "TX", "Industry", "Tourism", "Boat Dealers", y,
           Triple(t, q, 3, y)),
    CmpRow("County", "Lee", "TX", "Sector", "Tourism", NoStr, y, Triple(t, q, 1, y)),
    CmpRow("County", "Lee", "ME", "Sector", "Tourism", NoStr, y, Triple(t, q, 2, y)),
    CmpRow("County", "Kent", "TX", "Sector", "Tourism", NoStr, y, Triple(t, q, 3, y)),
    CmpRow("County", "Lee", "TX", "Industry", "Tourism", "Marinas", y,
           Triple(t, q, 1, y))>>

ComparisonPanel(t, q) ==
  Flatten([k \in 1..NumYears |-> CmpRowsOfYear(t, q, YearSeq[k])])

DefaultComparison == Loaded(ComparisonPanel(<<MaxVal, 1, 0>>, Reversed))

(***************************************************************************)
(* Selections of a run (the values the widgets return).                    *)
(***************************************************************************)
NoSel == [mode |-> NoStr, scale |-> NoStr, geo |-> NoStr, state |-> NoStr,
          agg |-> NoStr, unit |-> NoStr, industry |-> NoStr, metric |-> NoStr,
          year_range |-> <<0, 0>>, y_axis |-> NoStr, grouping_vars |-> <<>>,
          exclude_outliers |-> FALSE]

\* the (lo, hi) pairs a range slider between min_year and max_year can return
SliderRanges(min_year, max_year) ==
  {<<lo, hi>> \in (min_year..max_year) \X (min_year..max_year) : lo <= hi}

RECURSIVE SortedInts(_)
SortedInts(S) ==
  IF S = {} THEN <<>>
  ELSE LET m == CHOOSE x \in S : \A y \in S : x <= y
       IN <<m>> \o SortedInts(S \ {m})

OutRow(y, g, v) == [Year |-> y, Group |-> g, Estimate_value |-> v]

\* a value of the displayed copy: x /= 1e6 for a currency metric
Rescale(v, is_currency) == [num |-> v, den |-> IF is_currency THEN Million ELSE 1]
RescaleRows(rows, is_currency) ==
  [i \in 1..Len(rows) |->
     [rows[i] EXCEPT !.Estimate_value = Rescale(rows[i].Estimate_value, is_currency)]]

(***************************************************************************)
(* The year range sliders.                                                 *)
(***************************************************************************)
DefaultSpan == 9
CompareFirstYear == 2012
CompareLastYear == 2021

Max2(a, b) == IF a > b THEN a ELSE b

\* (max(min_year, max_year - 9), max_year)
EstimateDefaultRange(min_year, max_year) ==
  <<Max2(min_year, max_year - DefaultSpan), max_year>>

\* (min_year, max_year)
ErrorDefaultRange(min_year, max_year) == <<min_year, max_year>>

\* (max(min_year, 2012), min(max_year, 2021))
CompareDefaultRange(min_year, max_year) ==
  <<Max2(min_year, CompareFirstYear),
    IF max_year < CompareLastYear THEN max_year ELSE CompareLastYear>>

\* st.slider refuses a default range that is not ascending or not within
\* its bounds
SliderAccepts(min_year, max_year, value) ==
  /\ value[1] <= value[2]
  /\ min_year <= value[1]
  /\ value[2] <= max_year

(***************************************************************************)
(* Filters of the estimate modes.                                          *)
(***************************************************************************)
\* a variant that keeps the rows of every scale
state_level_data_AnyScale(active_df) == active_df

state_level_data(active_df) == Where(active_df, LAMBDA r : r.GeoScale = "State")

CountyActiveDf(active_df) ==
  Where(active_df, LAMBDA r : r.geoType = "County" /\ r.aggregation = "Sector")

RegionActiveDf(active_df) ==
  Where(active_df, LAMBDA r : r.GeoScale = "Region" /\ r.aggregation = "Sector")

\* a variant that does not restrict the aggregation level
StateBaseFiltered_AnyLevel(sld, year_range, aggregation_level, all_geo_label, selected_geo, selected_sector) ==
  LET b0 == Where(sld, LAMBDA r : /\ r.Year >= year_range[1]
                                  /\ r.Year <= year_range[2])
      b1 == IF selected_geo # all_geo_label
            THEN Where(b0, LAMBDA r : r.GeoName = selected_geo) ELSE b0
  IN IF selected_sector \notin {"All Marine Sectors", "All Marine Industries"}
     THEN Where(b1, LAMBDA r : r.OceanSector = selected_sector) ELSE b1

\* a variant whose sector filter starts again from the unfiltered frame
StateBaseFiltered_SectorRestarts(sld, year_range, aggregation_level, all_geo_label, selected_geo, selected_sector) ==
  LET b0 == Where(sld, LAMBDA r : /\ r.Year >= year_range[1]
                                  /\ r.Year <= year_range[2]
                                  /\ r.aggregation = aggregation_level)
      b1 == IF selected_geo # all_geo_label
            THEN Where(b0, LAMBDA r : r.GeoName = selected_geo) ELSE b0
  IN IF selected_sector \notin {"All Marine Sectors", "All Marine Industries"}
     THEN Where(sld, LAMBDA r : r.OceanSector = selected_sector) ELSE b1

\* State mode, "Filtering Logic"
StateBaseFiltered(sld, year_range, aggregation_level, all_geo_label, selected_geo, selected_sector) ==
  LET b0 == Where(sld, LAMBDA r : /\ r.Year >= year_range[1]
                                  /\ r.Year <= year_range[2]
                                  /\ r.aggregation = aggregation_level)
      b1 == IF selected_geo # all_geo_label
            THEN Where(b0, LAMBDA r : r.GeoName = selected_geo) ELSE b0
  IN IF selected_sector \notin {"All Marine Sectors", "All Marine Industries"}
     THEN Where(b1, LAMBDA r : r.OceanSector = selected_sector) ELSE b1

\* County mode filter (a county and its state are selected)
CountyBaseFiltered(active_df, year_range, selected_county_name, selected_state, selected_sector) ==
  LET b0 == Where(active_df, LAMBDA r : /\ r.Year >= year_range[1]
                                        /\ r.Year <= year_range[2])
      b1 == Where(b0, LAMBDA r : /\ r.GeoName = selected_county_name
                                 /\ r.stateName = selected_state)
  IN IF selected_sector # "All Marine Sectors"
     THEN Where(b1, LAMBDA r : r.OceanSector = selected_sector) ELSE b1

\* Regional mode filter
RegionBaseFiltered(active_df, year_range, all_geo_label, selected_geo, selected_sector) ==
  LET b0 == Where(active_df, LAMBDA r : /\ r.Year >= year_range[1]
                                        /\ r.Year <= year_range[2])
      b1 == IF selected_geo # all_geo_label
            THEN Where(b0, LAMBDA r : r.GeoName = selected_geo) ELSE b0
  IN IF selected_sector # "All Marine Sectors"
     THEN Where(b1, LAMBDA r : r.OceanSector = selected_sector) ELSE b1

(***************************************************************************)
(* Charting logic of the estimate modes.                                   *)
(***************************************************************************)
is_all_sectors_view(mode, selected_sector) ==
  /\ mode \in {"State Estimates from Public QCEW Data",
               "Regional Estimates from Public QCEW Data"}
  /\ selected_sector = "All Marine Sectors"

\* a variant that does not look at the sector selection
is_all_geos_AnyUnit(all_geo_label, selected_geo, selected_sector) ==
  /\ all_geo_label # NoStr
  /\ selected_geo = all_geo_label

is_all_geos_single_econ_unit(all_geo_label, selected_geo, selected_sector) ==
  /\ all_geo_label # NoStr
  /\ selected_geo = all_geo_label
  /\ selected_sector \notin {"All Marine Sectors", "All Marine Industries"}

\* f"All Other {geo_filter_type}s"
other_geo_text(geo_filter_type) ==
  CASE geo_filter_type = "State" -> "All Other States"
    [] geo_filter_type = "Region" -> "All Other Regions"
    [] OTHER -> "All Other Countys"

\* all-sectors view: the rows with a value, one output row per input row
StackedRows(base, col) ==
  LET kept == Where(base, LAMBDA r : r.Open[col] # NaN)
  IN [i \in 1..Len(kept) |->
        OutRow(kept[i].Year, kept[i].OceanSector, kept[i].Open[col])]

\* source_df: dropna(subset=[open_metric_col])
source_df(base, col) == Where(base, LAMBDA r : r.Open[col] # NaN)

\* a variant that ranks equal values by name
RankFirst_TiesByName(src, col, i) ==
  1 + Cardinality({j \in 1..Len(src) : /\ src[j].Year = src[i].Year
                                        /\ src[j].Open[col] > src[i].Open[col]})
    + Cardinality({j \in 1..Len(src) :
                     /\ src[j].Year = src[i].Year
                     /\ src[j].Open[col] = src[i].Open[col]
                     /\ \E a, b \in 1..Len(Alphabet) :
                          /\ Alphabet[a] = src[j].GeoName
                          /\ Alphabet[b] = src[i].GeoName
                          /\ a < b})

\* a variant that ranks in ascending order
RankFirst_Ascending(src, col, i) ==
  1 + Cardinality({j \in 1..Len(src) : /\ src[j].Year = src[i].Year
                                        /\ src[j].Open[col] < src[i].Open[col]})
    + Cardinality({j \in 1..(i - 1) : /\ src[j].Year = src[i].Year
                                      /\ src[j].Open[col] = src[i].Open[col]})

\* groupby('Year')[col].rank(method='first', ascending=False) of row i
RankFirst(src, col, i) ==
  1 + Cardinality({j \in 1..Len(src) : /\ src[j].Year = src[i].Year
                                        /\ src[j].Open[col] > src[i].Open[col]})
    + Cardinality({j \in 1..(i - 1) : /\ src[j].Year = src[i].Year
                                      /\ src[j].Open[col] = src[i].Open[col]})

\* np.where(rank <= 3, GeoName, other_geo_text)
GeoContribution(src, col, i, other) ==
  IF RankFirst(src, col, i) <= TopN THEN src[i].GeoName ELSE other

\* a variant that keeps the top rows only and drops the remainder
plot_df_geos_TopOnly(src, col, other) ==
  LET top == FilterSeq(src, {i \in 1..Len(src) : RankFirst(src, col, i) <= TopN})
      yrs == SortedInts({top[i].Year : i \in 1..Len(top)})
      OfYear(y) ==
        LET rows == Where(top, LAMBDA r : r.Year = y)
        IN [n \in 1..Len(rows) |-> OutRow(y, rows[n].GeoName, rows[n].Open[col])]
  IN Flatten([k \in 1..Len(yrs) |-> OfYear(yrs[k])])

\* groupby(['Year', 'GeoContribution'])[col].sum().reset_index()
plot_df_geos(src, col, other) ==
  LET yrs == SortedInts({src[i].Year : i \in 1..Len(src)})
      label(i) == GeoContribution(src, col, i, other)
      OfYear(y) ==
        LET names == SortedNames({label(i) : i \in {k \in 1..Len(src) : src[k].Year = y}})
        IN [n \in 1..Len(names) |->
              OutRow(y, names[n],
                     SumSkipNaN(Column(FilterSeq(src, {i \in 1..Len(src) :
                                         src[i].Year = y /\ label(i) = names[n]}),
                                       LAMBDA r : r.Open[col])))]
  IN Flatten([k \in 1..Len(yrs) |-> OfYear(yrs[k])])

\* a variant whose sum is null as soon as one row is null (skipna=False)
bar_df_NullPropagates(base, col) ==
  LET yrs == SortedInts({base[i].Year : i \in 1..Len(base)})
      cells(y) == Column(Where(base, LAMBDA r : r.Year = y), LAMBDA r : r.Open[col])
  IN [k \in 1..Len(yrs) |->
        OutRow(yrs[k], NoStr,
               IF \E i \in 1..Len(cells(yrs[k])) : cells(yrs[k])[i] = NaN
               THEN NaN ELSE SumSeq(cells(yrs[k])))]

\* base_filtered_df.groupby("Year")[col].sum().reset_index()
bar_df(base, col) ==
  LET yrs == SortedInts({base[i].Year : i \in 1..Len(base)})
  IN [k \in 1..Len(yrs) |->
        OutRow(yrs[k], NoStr,
               SumSkipNaN(Column(Where(base, LAMBDA r : r.Year = yrs[k]),
                                 LAMBDA r : r.Open[col])))]

\* a variant that takes the copy after the division by 1e6
DownloadCopy_AfterDivision(rows) ==
  [i \in 1..Len(rows) |-> [rows[i] EXCEPT !.Estimate_value = @ \div Million]]

\* chart_data_to_download = plot_df.copy(), taken before plot_df is rescaled
DownloadCopy(rows) == rows

\* a variant that asks for a positive value, as the decomposition does
NotEmpty_PositiveValue(rows) == \E i \in 1..Len(rows) : rows[i].Estimate_value > 0

\* not plot_df.empty, not bar_df.empty
NotEmpty(rows) == rows # <<>>

\* "Charting Logic": the path taken, the table offered for download, the
\* displayed copy and what is rendered.
EstimateChart(mode, base, all_geo_label, geo_filter_type, selected_geo, selected_sector, selected_display_metric) ==
  LET col == METRIC_MAP[selected_display_metric]
      is_currency == IsCurrencyMetric(selected_display_metric)
      Result(pth, rows, shown) ==
        [path |-> pth, chart_data_to_download |-> DownloadCopy(rows),
         plot_df |-> RescaleRows(rows, is_currency),
         outcome |-> IF shown THEN "chart" ELSE "warning"]
  IN IF is_all_sectors_view(mode, selected_sector)
     THEN LET rows == StackedRows(base, col)
          IN Result("stacked", rows, NotEmpty(rows))
     ELSE IF is_all_geos_single_econ_unit(all_geo_label, selected_geo, selected_sector)
     THEN LET src == source_df(base, col)
          IN IF src # <<>> /\ SumSkipNaN(Column(src, LAMBDA r : r.Open[col])) > 0
             THEN Result("decomposition",
                         plot_df_geos(src, col, other_geo_text(geo_filter_type)), TRUE)
             ELSE Result("decomposition", <<>>, FALSE)
     ELSE LET rows == bar_df(base, col)
          IN Result("bar", rows, NotEmpty(rows))

(***************************************************************************)
(* Runs of the script.                                                     *)
(***************************************************************************)
NamesOf(df) == {df[i].GeoName : i \in 1..Len(df)}
SectorsOf(df) == {df[i].OceanSector : i \in 1..Len(df)}

\* a variant that keeps the filtered frame in place of the loaded panel
Finish_FiltersInPlace(s, base, pth, download, shown, res, st, out) ==
  /\ sel' = s
  /\ base_filtered_df' = base
  /\ path' = pth
  /\ chart_data_to_download' = download
  /\ plot_df' = shown
  /\ results' = res
  /\ stats' = st
  /\ outcome' = out
  /\ IF s.mode \in estimate_modes
     THEN /\ open_enow_data' = [open_enow_data EXCEPT !.rows = base]
          /\ UNCHANGED comparison_data
     ELSE /\ comparison_data' = [comparison_data EXCEPT !.rows = base]
          /\ UNCHANGED open_enow_data
  /\ UNCHANGED <<plot_mode, button_type>>

\* what a run leaves behind
Finish(s, base, pth, download, shown, res, st, out) ==
  /\ sel' = s
  /\ base_filtered_df' = base
  /\ path' = pth
  /\ chart_data_to_download' = download
  /\ plot_df' = shown
  /\ results' = res
  /\ stats' = st
  /\ outcome' = out
  /\ UNCHANGED <<open_enow_data, comparison_data, plot_mode, button_type>>

\* is_selected = st.session_state.plot_mode == button_map[...]
is_selected(mode, mode_label) == mode = button_map[mode_label]

\* the script starts again from its first line: nothing of the previous run
\* is left
StartScript ==
  /\ sel' = [NoSel EXCEPT !.mode = plot_mode']
  /\ base_filtered_df' = <<>>
  /\ path' = NoStr
  /\ chart_data_to_download' = <<>>
  /\ plot_df' = <<>>
  /\ results' = <<>>
  /\ stats' = <<>>
  /\ outcome' = "running"
  /\ button_type' = [l \in DOMAIN button_map |->
                       IF is_selected(plot_mode', l) THEN "primary" ELSE "secondary"]
  /\ UNCHANGED <<open_enow_data, comparison_data>>

\* a widget other than a mode button was changed
Rerun ==
  /\ outcome # "running"
  /\ UNCHANGED plot_mode
  /\ StartScript

\* a variant that asks for both files whatever the mode
DataNotFound_AnySource(active_df) == ~open_enow_data.loaded \/ ~comparison_data.loaded

\* if active_df is None
DataNotFound(active_df) == ~active_df.loaded

\* a run that ends at st.stop() or with an exception before any table is built
Stopped(mode, out) ==
  Finish([NoSel EXCEPT !.mode = mode], <<>>, NoStr, <<>>, <<>>, <<>>, <<>>, out)

FinishEstimate(s, base, c) ==
  Finish(s, base, c.path, c.chart_data_to_download, c.plot_df, <<>>, <<>>, c.outcome)

RunState ==
  /\ outcome = "running"
  /\ plot_mode = button_map["States"]
  /\ IF DataNotFound(open_enow_data) THEN Stopped(plot_mode, "data_not_found")
     ELSE LET sld == state_level_data(open_enow_data.rows)
              all_geo_label == "All Coastal States"
          IN IF sld = <<>> THEN Stopped(plot_mode, "ValueError")
             ELSE IF ~SliderAccepts(MinYear(sld), MaxYear(sld),
                       EstimateDefaultRange(MinYear(sld), MaxYear(sld)))
             THEN Stopped(plot_mode, "StreamlitAPIException")
             ELSE \E selected_geo \in {all_geo_label} \cup NamesOf(sld),
                     view_by \in {"Sector", "Industry"},
                     selected_display_metric \in MetricInputs,
                     year_range \in SliderRanges(MinYear(sld), MaxYear(sld)) :
                  \E selected_sector \in
                       {IF view_by = "Sector" THEN "All Marine Sectors"
                                              ELSE "All Marine Industries"}
                       \cup SectorsOf(Where(sld, LAMBDA r : r.aggregation = view_by)) :
                    LET base == StateBaseFiltered(sld, year_range, view_by,
                                  all_geo_label, selected_geo, selected_sector)
                        c == EstimateChart(plot_mode, base, all_geo_label, "State",
                               selected_geo, selected_sector, selected_display_metric)
                    IN FinishEstimate([NoSel EXCEPT !.mode = plot_mode,
                          !.scale = "State", !.geo = selected_geo,
                          !.agg = view_by, !.unit = selected_sector,
                          !.metric = selected_display_metric,
                          !.year_range = year_range], base, c)

RunCounty ==
  /\ outcome = "running"
  /\ plot_mode = button_map["Counties"]
  /\ IF DataNotFound(open_enow_data) THEN Stopped(plot_mode, "data_not_found")
     ELSE LET active_df == CountyActiveDf(open_enow_data.rows)
          IN IF active_df = <<>> THEN Stopped(plot_mode, "ValueError")
             ELSE IF ~SliderAccepts(MinYear(active_df), MaxYear(active_df),
                       EstimateDefaultRange(MinYear(active_df), MaxYear(active_df)))
             THEN Stopped(plot_mode, "StreamlitAPIException")
             ELSE \E selected_state \in {active_df[i].stateName : i \in 1..Len(active_df)},
                     selected_sector \in {"All Marine Sectors"} \cup SectorsOf(active_df),
                     selected_display_metric \in MetricInputs,
                     year_range \in SliderRanges(MinYear(active_df), MaxYear(active_df)) :
                  \E selected_county_name \in
                       NamesOf(Where(active_df, LAMBDA r : r.stateName = selected_state)) :
                    LET base == CountyBaseFiltered(active_df, year_range,
                                  selected_county_name, selected_state, selected_sector)
                        c == EstimateChart(plot_mode, base, NoStr, "County",
                               selected_county_name, selected_sector,
                               selected_display_metric)
                    IN FinishEstimate([NoSel EXCEPT !.mode = plot_mode,
                          !.scale = "County", !.geo = selected_county_name,
                          !.state = selected_state,
                          !.agg = "Sector", !.unit = selected_sector,
                          !.metric = selected_display_metric,
                          !.year_range = year_range], base, c)

RunRegion ==
  /\ outcome = "running"
  /\ plot_mode = button_map["Regions"]
  /\ IF DataNotFound(open_enow_data) THEN Stopped(plot_mode, "data_not_found")
     ELSE LET active_df == RegionActiveDf(open_enow_data.rows)
              all_geo_label == "All Regions"
          IN IF active_df = <<>> THEN Stopped(plot_mode, "ValueError")
             ELSE IF ~SliderAccepts(MinYear(active_df), MaxYear(active_df),
                       EstimateDefaultRange(MinYear(active_df), MaxYear(active_df)))
             THEN Stopped(plot_mode, "StreamlitAPIException")
             ELSE \E selected_geo \in {all_geo_label} \cup NamesOf(active_df),
                     selected_sector \in {"All Marine Sectors"} \cup SectorsOf(active_df),
                     selected_display_metric \in MetricInputs,
                     year_range \in SliderRanges(MinYear(active_df), MaxYear(active_df)) :
                    LET base == RegionBaseFiltered(active_df, year_range,
                                  all_geo_label, selected_geo, selected_sector)
                        c == EstimateChart(plot_mode, base, all_geo_label, "Region",
                               selected_geo, selected_sector, selected_display_metric)
                    IN FinishEstimate([NoSel EXCEPT !.mode = plot_mode,
                          !.scale = "Region", !.geo = selected_geo,
                          !.agg = "Sector", !.unit = selected_sector,
                          !.metric = selected_display_metric,
                          !.year_range = year_range], base, c)

(***************************************************************************)
(* Error Analysis mode.                                                    *)
(***************************************************************************)
AlphaIndex(name) == CHOOSE i \in 1..Len(Alphabet) : Alphabet[i] = name

\* state_abbr_map[selected_state_name]: the dict keeps the last row of a name
StateAbbr(state_df, selected_state_name) ==
  IF selected_state_name = "All Coastal States" THEN "All"
  ELSE LET last == CHOOSE i \in 1..Len(state_df) :
                     /\ state_df[i].GeoName = selected_state_name
                     /\ \A j \in (i + 1)..Len(state_df) :
                          state_df[j].GeoName # selected_state_name
       IN state_df[last].state

ErrorFiltered(active_df, selected_agg, selected_geoscale, year_range, selected_state_name, selected_state_abbr, selected_sector_filter) ==
  LET b0 == Where(active_df, LAMBDA r : /\ r.aggregation = selected_agg
                                        /\ r.GeoScale = selected_geoscale
                                        /\ r.Year >= year_range[1]
                                        /\ r.Year <= year_range[2])
      b1 == IF selected_state_name # "All Coastal States"
            THEN Where(b0, LAMBDA r : r.state = selected_state_abbr) ELSE b0
  IN IF selected_sector_filter # "All Marine Sectors"
     THEN Where(b1, LAMBDA r : r.OceanSector = selected_sector_filter) ELSE b1

GroupField(r, var) ==
  CASE var = "OceanSector" -> r.OceanSector
    [] var = "OceanIndustry" -> r.OceanIndustry
    [] var = "Year" -> r.Year
    [] var = "state" -> r.state
    [] var = "GeoName" -> r.GeoName

\* the group key of a row for groupby(grouping_vars + ['GeoName'])
GroupKey(r, by) == [k \in 1..Len(by) |-> GroupField(r, by[k])]

\* groupby leaves out the rows that have a null key
HasNullKey(r, by) == \E k \in 1..Len(by) : by[k] # "Year" /\ GroupField(r, by[k]) = NoStr

KeyRank(key, by) ==
  [k \in 1..Len(by) |-> IF by[k] = "Year" THEN key[k] ELSE AlphaIndex(key[k])]

RECURSIVE LexLeq(_, _)
LexLeq(a, b) ==
  IF a = <<>> THEN TRUE
  ELSE IF Head(a) # Head(b) THEN Head(a) < Head(b)
  ELSE LexLeq(Tail(a), Tail(b))

RECURSIVE SortedKeys(_, _)
\* the group keys in the order groupby iterates them
SortedKeys(K, by) ==
  IF K = {} THEN <<>>
  ELSE LET m == CHOOSE x \in K : \A y \in K : LexLeq(KeyRank(x, by), KeyRank(y, by))
       IN <<m>> \o SortedKeys(K \ {m}, by)

Abs(x) == IF x < 0 THEN -x ELSE x

\* a variant that keeps the rows with a zero reference
valid_enow_KeepZero(group_df, col) == group_df

\* group_df[group_df[enow_col] != 0]
valid_enow(group_df, col) == Where(group_df, LAMBDA r : r.oldENOW[col] # 0)

\* result_row of one group; group_df is the group after dropna.  A mean is
\* kept as numerator and denominator, the root mean squared error as the
\* mean it is the root of, the mean percent difference as its terms.
result_row(name, group_df, col) ==
  LET n == Len(group_df)
      e(r) == r.oldENOW[col]
      o(r) == r.Open[col]
      sum_e == SumSeq(Column(group_df, e))
      sum_o == SumSeq(Column(group_df, o))
      ve == valid_enow(group_df, col)
  IN [name |-> name,
      group_df |-> group_df,
      pct_rows |-> ve,
      X_Value |-> [num |-> sum_e + sum_o, den |-> 2 * n],
      Original_ENOW_Value |-> [num |-> sum_e, den |-> n],
      Open_ENOW_Estimate |-> [num |-> sum_o, den |-> n],
      Mean_Percent_Difference |->
        [i \in 1..Len(ve) |-> [num |-> 100 * (o(ve[i]) - e(ve[i])), den |-> e(ve[i])]],
      Mean_Absolute_Error |->
        [num |-> SumSeq(Column(group_df, LAMBDA r : Abs(e(r) - o(r)))), den |-> n],
      Mean_Squared_Error |->
        [num |-> SumSeq(Column(group_df, LAMBDA r : (e(r) - o(r)) * (e(r) - o(r)))),
         den |-> n]]

\* the loop over filtered_df.groupby(grouping_vars + ['GeoName'])
ErrorResults(filtered_df, grouping_vars, col) ==
  LET by == grouping_vars \o <<"GeoName">>
      grouped == Where(filtered_df, LAMBDA r : ~HasNullKey(r, by))
      keys == SortedKeys({GroupKey(grouped[i], by) : i \in 1..Len(grouped)}, by)
      group(k) == Where(Where(grouped, LAMBDA r : GroupKey(r, by) = keys[k]),
                        LAMBDA r : r.oldENOW[col] # NaN /\ r.Open[col] # NaN)
      nonempty == Where([k \in 1..Len(keys) |-> k], LAMBDA k : group(k) # <<>>)
  IN [i \in 1..Len(nonempty) |-> result_row(keys[nonempty[i]], group(nonempty[i]), col)]

\* the columns of pd.DataFrame(results)
ResultColumns(grouping_vars) ==
  {"X_Value", "Original ENOW Value", "Open ENOW Estimate", "Mean Percent Difference",
   "Mean Absolute Error", "Root Mean Squared Error", "GeoName"} \cup Range(grouping_vars)

(***************************************************************************)
(* Values of the results table.  A number is a fraction num/den with       *)
(* den > 0; den = 0 stands for NaN.                                        *)
(***************************************************************************)
RNaN == [num |-> 0, den |-> 0]

RECURSIVE Gcd(_, _)
Gcd(a, b) == IF b = 0 THEN a ELSE Gcd(b, a % b)

Reduce(a) ==
  LET g == Gcd(Abs(a.num), a.den)
  IN IF g = 0 THEN a ELSE [num |-> a.num \div g, den |-> a.den \div g]

RAdd(a, b) == Reduce([num |-> a.num * b.den + b.num * a.den, den |-> a.den * b.den])
RSub(a, b) == RAdd(a, [num |-> -b.num, den |-> b.den])
\* a * p / q
RMul(a, p, q) == Reduce([num |-> a.num * p, den |-> a.den * q])
RLeq(a, b) == a.num * b.den <= b.num * a.den

RECURSIVE RSum(_)
RSum(s) == IF s = <<>> THEN [num |-> 0, den |-> 1] ELSE RAdd(Head(s), RSum(Tail(s)))

\* Series.mean(): NaN for an empty series
RMean(s) == IF s = <<>> THEN RNaN ELSE RMul(RSum(s), 1, Len(s))

RECURSIVE Isqrt(_, _, _)
\* the integer square root of n, by bisection of lo..hi
Isqrt(n, lo, hi) ==
  IF lo >= hi THEN lo
  ELSE LET mid == (lo + hi + 1) \div 2
       IN IF mid * mid <= n THEN Isqrt(n, mid, hi) ELSE Isqrt(n, lo, mid - 1)

\* np.sqrt of a fraction, to three decimal places
RSqrt(a) ==
  Reduce([num |-> Isqrt(a.num * a.den * 1000000, 0, 46340), den |-> a.den * 1000])

\* results_df[y_axis_choice] of one row
YValue(r, y_axis_choice) ==
  CASE y_axis_choice = "Mean Percent Difference" -> RMean(r.Mean_Percent_Difference)
    [] y_axis_choice = "Mean Absolute Error" -> Reduce(r.Mean_Absolute_Error)
    [] y_axis_choice = "Root Mean Squared Error" -> RSqrt(r.Mean_Squared_Error)

RECURSIVE RSorted(_)
\* the values of a sequence in ascending order
RSorted(s) ==
  IF s = <<>> THEN <<>>
  ELSE LET m == CHOOSE i \in 1..Len(s) : \A j \in 1..Len(s) : RLeq(s[i], s[j])
       IN <<s[m]>> \o RSorted(FilterSeq(s, (1..Len(s)) \ {m}))

\* Series.quantile(k / 4): linear interpolation between the two nearest of
\* the values that are not NaN
Quantile(ys, k) ==
  LET v == RSorted(Where(ys, LAMBDA y : y.den # 0))
      h == (Len(v) - 1) * k
      lo == (h \div 4) + 1
  IN IF v = <<>> THEN RNaN
     ELSE IF h % 4 = 0 THEN v[lo]
     ELSE RAdd(v[lo], RMul(RSub(v[lo + 1], v[lo]), h % 4, 4))

\* results_df[results_df['Y_Value'].between(Q1 - 1.5 * IQR, Q3 + 1.5 * IQR)]
OutlierFence(rows, y_axis_choice) ==
  LET ys == Column(rows, LAMBDA r : YValue(r, y_axis_choice))
      Q1 == Quantile(ys, 1)
      Q3 == Quantile(ys, 3)
      lower == RSub(Q1, RMul(RSub(Q3, Q1), 3, 2))
      upper == RAdd(Q3, RMul(RSub(Q3, Q1), 3, 2))
  IN IF Q1.den = 0 THEN <<>>
     ELSE Where(rows, LAMBDA r :
            LET y == YValue(r, y_axis_choice)
            IN y.den # 0 /\ RLeq(lower, y) /\ RLeq(y, upper))

\* the rows of results_df that are plotted: X_Value > 0, then the fence
PlottedResults(res, y_axis_choice, exclude_outliers) ==
  LET positive == Where(res, LAMBDA r : r.X_Value.num > 0)
  IN IF exclude_outliers /\ positive # <<>>
     THEN OutlierFence(positive, y_axis_choice) ELSE positive

\* the user's picks among the fixed options of the Error Analysis widgets
XAxisInputs == {"Employment"}
YAxisInputs == {"Mean Percent Difference", "Root Mean Squared Error"}
\* (y-axis, exclude outliers) as the modelled user combines them: outliers
\* are excluded from the percent differences only
AnalysisInputs == {<<y, y = "Mean Percent Difference">> : y \in YAxisInputs}
GroupingInputs == {<<"Year">>, <<"OceanSector", "state">>, <<"OceanIndustry">>, <<>>}

RunErrorAnalysis ==
  /\ outcome = "running"
  /\ plot_mode = button_map["Error Analysis"]
  /\ IF DataNotFound(comparison_data) THEN Stopped(plot_mode, "data_not_found")
     ELSE LET active_df == comparison_data.rows
              state_df == Where(active_df, LAMBDA r : r.GeoScale = "State")
          IN IF active_df = <<>> THEN Stopped(plot_mode, "ValueError")
             ELSE IF ~SliderAccepts(MinYear(active_df), MaxYear(active_df),
                       ErrorDefaultRange(MinYear(active_df), MaxYear(active_df)))
             THEN Stopped(plot_mode, "StreamlitAPIException")
             ELSE \E selected_agg \in {"Sector", "Industry"},
                     selected_geoscale \in {"State", "County"},
                     analysis \in AnalysisInputs,
                     x_axis_choice \in XAxisInputs,
                     grouping_vars \in GroupingInputs,
                     year_range \in SliderRanges(MinYear(active_df), MaxYear(active_df)),
                     selected_state_name \in {"All Coastal States"} \cup NamesOf(state_df),
                     selected_sector_filter \in {"All Marine Sectors"} \cup SectorsOf(active_df) :
                  LET y_axis_choice == analysis[1]
                      exclude_outliers == analysis[2]
                      s == [NoSel EXCEPT !.mode = plot_mode,
                              !.scale = selected_geoscale, !.agg = selected_agg,
                              !.state = selected_state_name,
                              !.unit = selected_sector_filter,
                              !.metric = x_axis_choice, !.year_range = year_range,
                              !.y_axis = y_axis_choice,
                              !.grouping_vars = grouping_vars,
                              !.exclude_outliers = exclude_outliers]
                      filtered_df == ErrorFiltered(active_df, selected_agg,
                                       selected_geoscale, year_range, selected_state_name,
                                       StateAbbr(state_df, selected_state_name),
                                       selected_sector_filter)
                      res == ErrorResults(filtered_df, grouping_vars, x_axis_choice)
                  IN IF grouping_vars = <<>>
                     THEN Finish(s, <<>>, NoStr, <<>>, <<>>, <<>>, <<>>, "stopped")
                     ELSE IF res = <<>>
                     THEN Finish(s, filtered_df, "error_analysis", <<>>, <<>>, res, <<>>,
                                 "warning")
                     ELSE IF {"Y_Value", "X_Value"} \subseteq ResultColumns(grouping_vars)
                     THEN Finish(s, filtered_df, "error_analysis", <<>>, <<>>,
                                 PlottedResults(res, y_axis_choice, exclude_outliers),
                                 <<>>, "chart")
                     ELSE Finish(s, filtered_df, "error_analysis", <<>>, <<>>, res, <<>>,
                                 "KeyError")

(***************************************************************************)
(* Compare mode.                                                           *)
(***************************************************************************)
\* names bound at module level before the mode branches are entered
TopLevelNames ==
  {"comparison_data", "open_enow_data", "SECTOR_DESCRIPTIONS", "METRIC_DESCRIPTIONS",
   "METRIC_MAP", "button_map", "row1_cols", "is_selected", "rev_cols", "plot_mode",
   "estimate_modes", "selected_county_name", "selected_state", "geo_filter_type",
   "all_geo_label", "selected_geo", "selected_sector"}

\* names bound by the Compare branch before it rescales plot_df
CompareBlockNames ==
  {"active_df", "state_df", "state_names", "state_abbr_map", "selected_state_name",
   "selected_state_abbr", "county_list", "selected_county", "ocean_sectors",
   "selected_sector", "industry_list", "selected_industry", "metric_choices",
   "selected_display_metric", "selected_metric_internal", "min_year", "max_year",
   "year_range", "geo_title", "econ_title", "base_filtered_df", "is_county_level",
   "is_industry_level", "open_metric_col", "enow_metric_col", "noimpute_metric_col",
   "required_cols", "plot_df"}

CompareFiltered(active_df, year_range, selected_state_name, selected_county, selected_sector, selected_industry) ==
  LET is_county_level == selected_county # "All Coastal Counties"
      is_industry_level == selected_industry # "All Marine Industries"
      b0 == Where(active_df, LAMBDA r : /\ r.Year >= year_range[1]
                                        /\ r.Year <= year_range[2])
      b1 == Where(b0, LAMBDA r : r.GeoScale = (IF is_county_level THEN "County"
                                                                  ELSE "State"))
      b2 == IF is_county_level THEN Where(b1, LAMBDA r : r.GeoName = selected_county)
            ELSE IF selected_state_name # "All Coastal States"
            THEN Where(b1, LAMBDA r : r.GeoName = selected_state_name) ELSE b1
      b3 == Where(b2, LAMBDA r : r.aggregation = (IF is_industry_level THEN "Industry"
                                                                       ELSE "Sector"))
  IN IF is_industry_level THEN Where(b3, LAMBDA r : r.OceanIndustry = selected_industry)
     ELSE IF selected_sector # "All Marine Sectors"
     THEN Where(b3, LAMBDA r : r.OceanSector = selected_sector) ELSE b3

\* replace({0: np.nan})
ZeroToNaN(v) == IF v = 0 THEN NaN ELSE v

\* plot_df.groupby("Year").sum(min_count=1).reset_index().replace({0: np.nan});
\* den is the divisor already applied to the three value columns
compare_df(base, col, is_currency) ==
  LET yrs == SortedInts({base[i].Year : i \in 1..Len(base)})
      total(y, f(_)) == ZeroToNaN(SumMinCount1(Column(Where(base, LAMBDA r : r.Year = y), f)))
  IN [k \in 1..Len(yrs) |->
        [Year |-> yrs[k],
         Original_ENOW |-> total(yrs[k], LAMBDA r : r.oldENOW[col]),
         Open_ENOW_Estimate |-> total(yrs[k], LAMBDA r : r.Open[col]),
         Public_QCEW |-> total(yrs[k], LAMBDA r : r.noimpute[col]),
         den |-> IF is_currency THEN Million ELSE 1]]

\* melt('Year', var_name='Source', value_name='Value').dropna(subset=['Value'])
long_form_df(cdf) ==
  LET melted ==
        [i \in 1..Len(cdf) |-> [Year |-> cdf[i].Year, Source |-> "Original ENOW",
                                Value |-> cdf[i].Original_ENOW]]
        \o [i \in 1..Len(cdf) |-> [Year |-> cdf[i].Year, Source |-> "Open ENOW Estimate",
                                   Value |-> cdf[i].Open_ENOW_Estimate]]
        \o [i \in 1..Len(cdf) |-> [Year |-> cdf[i].Year,
                                   Source |-> "Public QCEW data, no imputed values",
                                   Value |-> cdf[i].Public_QCEW]]
  IN Where(melted, LAMBDA r : r.Value # NaN)

SourceValue(r, source_col) ==
  IF source_col = "Open ENOW Estimate" THEN r.Open_ENOW_Estimate ELSE r.Public_QCEW

\* the summary statistics of one source against "Original ENOW"
CompareStats(cdf, source_col) ==
  LET valid_compare == Where(cdf, LAMBDA r : /\ r.Original_ENOW # NaN
                                             /\ SourceValue(r, source_col) # NaN)
      n == Len(valid_compare)
      d(r) == SourceValue(r, source_col) - r.Original_ENOW
      finite == Where(valid_compare, LAMBDA r : r.Original_ENOW # 0)
  IN IF valid_compare # <<>>
     THEN [source |-> source_col, message |-> "statistics",
           valid_compare |-> valid_compare, pct_rows |-> finite,
           Mean_Absolute_Error |->
             [num |-> SumSeq(Column(valid_compare, LAMBDA r : Abs(d(r)))), den |-> n],
           Mean_Squared_Error |->
             [num |-> SumSeq(Column(valid_compare, LAMBDA r : d(r) * d(r))), den |-> n],
           Mean_Percent_Difference |->
             [i \in 1..Len(finite) |-> [num |-> 100 * d(finite[i]),
                                        den |-> finite[i].Original_ENOW]]]
     ELSE [source |-> source_col, message |-> "not_enough",
           valid_compare |-> <<>>, pct_rows |-> <<>>,
           Mean_Absolute_Error |-> [num |-> 0, den |-> 0],
           Mean_Squared_Error |-> [num |-> 0, den |-> 0],
           Mean_Percent_Difference |-> <<>>]

IndustriesOf(df) == {df[i].OceanIndustry : i \in 1..Len(df)}

RunCompare ==
  /\ outcome = "running"
  /\ plot_mode = button_map["Compare"]
  /\ IF DataNotFound(comparison_data) THEN Stopped(plot_mode, "data_not_found")
     ELSE LET active_df == comparison_data.rows
              state_df == Where(active_df, LAMBDA r : r.GeoScale = "State")
          IN IF active_df = <<>> THEN Stopped(plot_mode, "ValueError")
             ELSE IF ~SliderAccepts(MinYear(active_df), MaxYear(active_df),
                       CompareDefaultRange(MinYear(active_df), MaxYear(active_df)))
             THEN Stopped(plot_mode, "StreamlitAPIException")
             ELSE \E selected_state_name \in {"All Coastal States"} \cup NamesOf(state_df),
                     selected_sector \in {"All Marine Sectors"} \cup SectorsOf(active_df),
                     selected_display_metric \in MetricInputs,
                     year_range \in SliderRanges(MinYear(active_df), MaxYear(active_df)) :
                  \E selected_county \in {"All Coastal Counties"} \cup
                       (IF selected_state_name # "All Coastal States"
                        THEN NamesOf(Where(active_df, LAMBDA r :
                               /\ r.GeoScale = "County"
                               /\ r.state = StateAbbr(state_df, selected_state_name)))
                        ELSE {}),
                     selected_industry \in {"All Marine Industries"} \cup
                       (IF selected_sector # "All Marine Sectors"
                        THEN IndustriesOf(Where(active_df, LAMBDA r :
                               /\ r.aggregation = "Industry"
                               /\ r.OceanSector = selected_sector))
                        ELSE {}) :
                    LET s == [NoSel EXCEPT !.mode = plot_mode,
                                !.scale = IF selected_county # "All Coastal Counties"
                                          THEN "County" ELSE "State",
                                !.state = selected_state_name,
                                !.geo = selected_county,
                                !.agg = IF selected_industry # "All Marine Industries"
                                        THEN "Industry" ELSE "Sector",
                                !.unit = selected_sector,
                                !.industry = selected_industry,
                                !.metric = selected_display_metric,
                                !.year_range = year_range]
                        base == CompareFiltered(active_df, year_range,
                                  selected_state_name, selected_county,
                                  selected_sector, selected_industry)
                        cdf == compare_df(base, METRIC_MAP[selected_display_metric],
                                          IsCurrencyMetric(selected_display_metric))
                        lf == long_form_df(cdf)
                    IN IF "is_currency" \notin TopLevelNames \cup CompareBlockNames
                       THEN Finish(s, base, "compare", <<>>, <<>>, <<>>, <<>>, "NameError")
                       ELSE IF lf # <<>>
                       THEN Finish(s, base, "compare", cdf, lf, <<>>,
                                   <<CompareStats(cdf, "Open ENOW Estimate"),
                                     CompareStats(cdf, "Public QCEW data, no imputed values")>>,
                                   "chart")
                       ELSE Finish(s, base, "compare", <<>>, lf, <<>>, <<>>, "warning")

\* a variant that stores the label of the button
update_mode_StoresLabel(mode_label) == plot_mode' = mode_label

\* on_click callback of a mode button
update_mode(mode_label) == plot_mode' = button_map[mode_label]

\* a click runs the callback and then the script from its first line
ClickButton ==
  /\ outcome # "running"
  /\ \E mode_label \in DOMAIN button_map : update_mode(mode_label)
  /\ StartScript

\* The value vectors of the first year: every multiset of cells, in ascending
\* order in the file (a later year may list them in descending order).
Ascending == {f \in [1..NumStates -> Val] : \A i \in 1..(NumStates - 1) : f[i] <= f[i + 1]}

OpenPanels == {Loaded(OpenPanel(f, p)) : f \in Ascending, p \in Profiles}
ComparisonPanels == {Loaded(ComparisonPanel(t, q)) : t \in Val \X Val \X {1}, q \in Profiles}

\* files that hold State rows only
StateOnlyOpen == Loaded(Where(DefaultOpen.rows, LAMBDA r : r.GeoScale = "State"))
StateOnlyComparison ==
  Loaded(Where(DefaultComparison.rows, LAMBDA r : r.GeoScale = "State"))

\* a comparison file whose years all lie after 2021
LateComparison ==
  Loaded([i \in 1..Len(DefaultComparison.rows) |->
            [DefaultComparison.rows[i] EXCEPT
               !.Year = @ - FirstYear + CompareLastYear + 1]])

\* Both files, either, or none may be present; a file may hold no rows, or
\* no rows of some scale.
Init ==
  /\ \/ open_enow_data \in OpenPanels /\ comparison_data = None
     \/ open_enow_data = None /\ comparison_data \in ComparisonPanels
     \/ open_enow_data = DefaultOpen /\ comparison_data = DefaultComparison
     \/ open_enow_data = StateOnlyOpen /\ comparison_data = StateOnlyComparison
     \/ open_enow_data = None /\ comparison_data = LateComparison
     \/ open_enow_data = Loaded(<<>>) /\ comparison_data = Loaded(<<>>)
     \/ open_enow_data = None /\ comparison_data = None
  /\ plot_mode = button_map["States"]
  /\ button_type = [l \in DOMAIN button_map |-> NoStr]
  /\ sel = NoSel
  /\ base_filtered_df = <<>>
  /\ path = NoStr
  /\ chart_data_to_download = <<>>
  /\ plot_df = <<>>
  /\ results = <<>>
  /\ stats = <<>>
  /\ outcome = NoStr

Next == ClickButton \/ Rerun \/ RunState \/ RunCounty \/ RunRegion \/ RunErrorAnalysis
        \/ RunCompare

Spec == Init /\ [][Next]_vars

(***************************************************************************)
(* Vocabulary of the properties.                                           *)
(***************************************************************************)
EstimateRun == sel.mode \in estimate_modes /\ outcome \in {"chart", "warning"}
SelCol == METRIC_MAP[sel.metric]
BaseIdx == 1..Len(base_filtered_df)
OutIdx == 1..Len(chart_data_to_download)
Out(i) == chart_data_to_download[i]
OtherLabel == other_geo_text(sel.scale)

\* the rows of the filtered table of year y that carry a value of the metric
ValuedRows(y) ==
  Where(base_filtered_df, LAMBDA r : r.Year = y /\ r.Open[SelCol] # NaN)
ValuesOf(rows) == Column(rows, LAMBDA r : r.Open[SelCol])
OutRowsOfYear(y) == Where(chart_data_to_download, LAMBDA r : r.Year = y)
NamedOfYear(y) == Where(OutRowsOfYear(y), LAMBDA r : r.Group # OtherLabel)
OtherOfYear(y) == Where(OutRowsOfYear(y), LAMBDA r : r.Group = OtherLabel)
NamedGroups(y) == {NamedOfYear(y)[i].Group : i \in 1..Len(NamedOfYear(y))}
BucketedRows(y) == Where(ValuedRows(y), LAMBDA r : r.GeoName \notin NamedGroups(y))
YearsInRange == sel.year_range[1]..sel.year_range[2]
Decomposed == EstimateRun /\ path = "decomposition" /\ outcome = "chart"
Min2(a, b) == IF a < b THEN a ELSE b

\* the panel a run reads
ActivePanel == IF sel.mode \in estimate_modes THEN open_enow_data.rows
               ELSE comparison_data.rows
Filtered == outcome \notin {NoStr, "running", "data_not_found", "ValueError",
                         "StreamlitAPIException", "stopped"}

(***************************************************************************)
(* C1: in every mode and for every selection, all rows of the filtered     *)
(* table have the aggregation level the run asks for, so Sector rows and   *)
(* Industry rows are never together in one filtered table.                 *)
(***************************************************************************)
C1_SingleAggregation ==
  Filtered =>
    /\ sel.agg \in {"Sector", "Industry"}
    /\ \A i \in BaseIdx : base_filtered_df[i].aggregation = sel.agg

\* an "all sectors/industries" selection kept rows while the panel holds rows
\* of the other level for the same place and year
C1_Witness ==
  /\ Filtered
  /\ sel.unit \in {"All Marine Sectors", "All Marine Industries"}
  /\ Len(base_filtered_df) >= 2
  /\ \E i \in BaseIdx : \E j \in 1..Len(ActivePanel) :
       /\ ActivePanel[j].aggregation # sel.agg
       /\ ActivePanel[j].GeoScale = base_filtered_df[i].GeoScale
       /\ ActivePanel[j].GeoName = base_filtered_df[i].GeoName
       /\ ActivePanel[j].Year = base_filtered_df[i].Year

(***************************************************************************)
(* C2: in every mode and for every selection, all rows of the filtered     *)
(* table have the geography scale the mode or selection asks for; rows of  *)
(* two scales are never summed together.                                   *)
(***************************************************************************)
C2_SingleScale ==
  Filtered =>
    /\ sel.scale \in {"State", "County", "Region"}
    /\ \A i \in BaseIdx : base_filtered_df[i].GeoScale = sel.scale

\* an "all geographies" selection kept rows while the panel holds rows of
\* another scale for the same sector and year
C2_Witness ==
  /\ Filtered
  /\ sel.geo \in {"All Coastal States", "All Regions", "All Coastal Counties"}
  /\ Len(base_filtered_df) >= 2
  /\ \E i \in BaseIdx : \E j \in 1..Len(ActivePanel) :
       /\ ActivePanel[j].GeoScale # sel.scale
       /\ ActivePanel[j].aggregation = base_filtered_df[i].aggregation
       /\ ActivePanel[j].OceanSector = base_filtered_df[i].OceanSector
       /\ ActivePanel[j].Year = base_filtered_df[i].Year

(***************************************************************************)
(* C3: on every aggregation path, a (year, group) pair whose contributing  *)
(* rows all have a null metric value has no output row; it is never        *)
(* emitted with the value 0.  An output row therefore always has a         *)
(* contributing row that carries a value.                                  *)
(***************************************************************************)
C3_NoRowForAllNullPair ==
  EstimateRun =>
    \A i \in OutIdx :
      \E j \in BaseIdx :
        /\ base_filtered_df[j].Year = Out(i).Year
        /\ base_filtered_df[j].Open[SelCol] # NaN
        /\ path = "stacked" => base_filtered_df[j].OceanSector = Out(i).Group
        /\ (path = "decomposition" /\ Out(i).Group # OtherLabel)
             => base_filtered_df[j].GeoName = Out(i).Group

(***************************************************************************)
(* C4: for every (year, group) pair with at least one non-null value the   *)
(* aggregated value is the sum of the non-null values of the pair; null    *)
(* rows add nothing and do not turn the total into null or 0.              *)
(***************************************************************************)
C4_SumOfNonNull ==
  (EstimateRun /\ outcome = "chart") =>
    \A y \in YearsInRange :
      /\ path = "bar" =>
           (ValuedRows(y) # <<>> =>
              /\ Len(OutRowsOfYear(y)) = 1
              /\ OutRowsOfYear(y)[1].Estimate_value = SumSeq(ValuesOf(ValuedRows(y))))
      /\ path = "stacked" =>
           \A sec \in SectorsOf(ValuedRows(y)) :
             SumSeq(Column(Where(OutRowsOfYear(y), LAMBDA r : r.Group = sec),
                           LAMBDA r : r.Estimate_value))
               = SumSeq(ValuesOf(Where(ValuedRows(y), LAMBDA r : r.OceanSector = sec)))
      /\ path = "decomposition" =>
           /\ \A g \in NamesOf(ValuedRows(y)) :
                \/ g \in NamedGroups(y)
                \/ Len(OtherOfYear(y)) = 1
           /\ \A i \in 1..Len(NamedOfYear(y)) :
                NamedOfYear(y)[i].Estimate_value =
                  SumSeq(ValuesOf(Where(ValuedRows(y),
                                        LAMBDA r : r.GeoName = NamedOfYear(y)[i].Group)))
           /\ \A i \in 1..Len(OtherOfYear(y)) :
                OtherOfYear(y)[i].Estimate_value = SumSeq(ValuesOf(BucketedRows(y)))

\* a year whose rows are partly null and partly not was summed
C4_Witness ==
  /\ EstimateRun /\ outcome = "chart" /\ path = "bar"
  /\ \E y \in YearsInRange :
       /\ Len(ValuedRows(y)) >= 2
       /\ \E j \in BaseIdx : /\ base_filtered_df[j].Year = y
                             /\ base_filtered_df[j].Open[SelCol] = NaN
       /\ OutRowsOfYear(y)[1].Estimate_value > MaxVal

(***************************************************************************)
(* C5: in the top-contributors decomposition, for each year on its own,    *)
(* the 3 geographies with the largest value keep their name, all others    *)
(* are summed into one 'All Other <Scale>s' row, and that row exists for a *)
(* year exactly when the year has more than 3 geographies with a value.    *)
(***************************************************************************)
C5_TopThreePlusOther ==
  Decomposed =>
    /\ OtherLabel \in {"All Other States", "All Other Regions"}
    /\ \A y \in YearsInRange :
         LET valued == ValuedRows(y)
             named == NamedOfYear(y)
             other == OtherOfYear(y)
         IN /\ Len(named) = Min2(TopN, Len(valued))
            /\ \A i \in 1..Len(named) :
                 /\ \E j \in 1..Len(valued) :
                      /\ valued[j].GeoName = named[i].Group
                      /\ valued[j].Open[SelCol] = named[i].Estimate_value
                 /\ \A j \in 1..Len(BucketedRows(y)) :
                      named[i].Estimate_value >= BucketedRows(y)[j].Open[SelCol]
            /\ Len(other) = (IF Len(valued) > TopN THEN 1 ELSE 0)
            /\ \A i \in 1..Len(other) :
                 other[i].Estimate_value = SumSeq(ValuesOf(BucketedRows(y)))

\* a year with more than 3 valued geographies of different sizes, with a
\* non-zero remainder
C5_Witness ==
  /\ Decomposed
  /\ \E y \in YearsInRange :
       /\ Len(ValuedRows(y)) > TopN
       /\ Len(OtherOfYear(y)) = 1
       /\ OtherOfYear(y)[1].Estimate_value > 0
       /\ \E i \in 1..Len(NamedOfYear(y)) :
            NamedOfYear(y)[i].Estimate_value > OtherOfYear(y)[1].Estimate_value

(***************************************************************************)
(* C6: for every year of the decomposition output, the output rows of the  *)
(* year add up to the sum of the metric over all filtered rows of the year *)
(* that have a value.                                                      *)
(***************************************************************************)
C6_DecompositionComplete ==
  Decomposed =>
    \A y \in YearsInRange :
      OutRowsOfYear(y) # <<>> =>
        SumSeq(Column(OutRowsOfYear(y), LAMBDA r : r.Estimate_value))
          = SumSeq(ValuesOf(ValuedRows(y)))

\* a year whose total is split between named rows and the remainder row
C6_Witness ==
  /\ Decomposed
  /\ \E y \in YearsInRange :
       /\ Len(NamedOfYear(y)) = TopN
       /\ Len(OtherOfYear(y)) = 1
       /\ OtherOfYear(y)[1].Estimate_value > 0
       /\ SumSeq(ValuesOf(ValuedRows(y))) > TopN

(***************************************************************************)
(* C7: in the decomposition, a year in which every geography's value is    *)
(* zero or null has no output rows, also when other years have positive    *)
(* values.                                                                 *)
(***************************************************************************)
C7_NoRowsForZeroYear ==
  (EstimateRun /\ path = "decomposition") =>
    \A i \in OutIdx :
      \E j \in BaseIdx : /\ base_filtered_df[j].Year = Out(i).Year
                         /\ base_filtered_df[j].Open[SelCol] > 0

(***************************************************************************)
(* Vocabulary of the deviation statistics.                                 *)
(***************************************************************************)
ErrorRun == sel.mode = "Error Analysis" /\ path = "error_analysis"
CompareRun == sel.mode = "Compare to original ENOW" /\ path = "compare"
ErrCol == sel.metric
Usable(v) == v # NaN /\ v # 0
StatSources == {"Open ENOW Estimate", "Public QCEW data, no imputed values"}

(***************************************************************************)
(* C8: only years in which both series have a value that is neither null   *)
(* nor zero contribute to the mean absolute error, the root mean squared   *)
(* error and the mean percent difference, in Compare mode and in Error     *)
(* Analysis mode alike.                                                    *)
(***************************************************************************)
C8_OnlyUsableYearsContribute ==
  /\ ErrorRun =>
       \A k \in 1..Len(results) :
         /\ \A i \in 1..Len(results[k].group_df) :
              /\ Usable(results[k].group_df[i].oldENOW[ErrCol])
              /\ Usable(results[k].group_df[i].Open[ErrCol])
         /\ \A i \in 1..Len(results[k].pct_rows) :
              /\ Usable(results[k].pct_rows[i].oldENOW[ErrCol])
              /\ Usable(results[k].pct_rows[i].Open[ErrCol])
  /\ CompareRun =>
       \A k \in 1..Len(stats) :
         \A i \in 1..Len(stats[k].valid_compare) :
           /\ Usable(stats[k].valid_compare[i].Original_ENOW)
           /\ Usable(SourceValue(stats[k].valid_compare[i], stats[k].source))

(***************************************************************************)
(* C9: a year or row whose reference value is exactly 0 never contributes  *)
(* to the mean percent difference; it is excluded before the division, so  *)
(* no term of the mean has a zero denominator.                             *)
(***************************************************************************)
C9_ZeroReferenceExcluded ==
  /\ ErrorRun =>
       \A k \in 1..Len(results) :
         /\ \A i \in 1..Len(results[k].pct_rows) :
              results[k].pct_rows[i].oldENOW[ErrCol] # 0
         /\ \A i \in 1..Len(results[k].Mean_Percent_Difference) :
              results[k].Mean_Percent_Difference[i].den # 0
         /\ Len(results[k].Mean_Percent_Difference)
              = Len(Where(results[k].group_df, LAMBDA r : r.oldENOW[ErrCol] # 0))
  /\ CompareRun =>
       \A k \in 1..Len(stats) :
         /\ \A i \in 1..Len(stats[k].pct_rows) : stats[k].pct_rows[i].Original_ENOW # 0
         /\ \A i \in 1..Len(stats[k].Mean_Percent_Difference) :
              stats[k].Mean_Percent_Difference[i].den # 0

\* a group with a zero reference in one year and a percent term from another
C9_Witness ==
  /\ ErrorRun
  /\ \E k \in 1..Len(results) :
       /\ \E i \in 1..Len(results[k].group_df) :
            results[k].group_df[i].oldENOW[ErrCol] = 0
       /\ Len(results[k].Mean_Percent_Difference) >= 1
       /\ Len(results[k].Mean_Percent_Difference) < Len(results[k].group_df)

(***************************************************************************)
(* C10: when a pairwise comparison has no aligned year, no statistic is    *)
(* reported as a number for it: Compare mode shows the 'Not enough         *)
(* overlapping data' message, Error Analysis omits the group, and neither  *)
(* raises an exception.                                                    *)
(***************************************************************************)
C10_NoAlignedYearNoStatistic ==
  /\ CompareRun =>
       LET cdf == compare_df(base_filtered_df, METRIC_MAP[sel.metric],
                             IsCurrencyMetric(sel.metric))
       IN \A src \in StatSources :
            (/\ long_form_df(cdf) # <<>>
             /\ CompareStats(cdf, src).message = "not_enough")
              => /\ outcome = "chart"
                 /\ \E k \in 1..Len(stats) :
                      stats[k].source = src /\ stats[k].message = "not_enough"
  /\ ErrorRun =>
       LET by == sel.grouping_vars \o <<"GeoName">>
           Aligned(r) == r.oldENOW[ErrCol] # NaN /\ r.Open[ErrCol] # NaN
       IN \A i \in BaseIdx :
            (/\ ~HasNullKey(base_filtered_df[i], by)
             /\ \A j \in BaseIdx :
                  GroupKey(base_filtered_df[j], by) = GroupKey(base_filtered_df[i], by)
                    => ~Aligned(base_filtered_df[j]))
              => /\ outcome \in {"chart", "warning"}
                 /\ \A k \in 1..Len(results) :
                      results[k].name # GroupKey(base_filtered_df[i], by)

(***************************************************************************)
(* C11: over the aligned years of a reference series a and an estimate     *)
(* series b the reported statistics are: mean absolute error = mean of     *)
(* |b - a|, root mean squared error = root of the mean of (b - a)^2, mean  *)
(* percent difference = mean of 100 * (b - a) / a.  A pair that has an     *)
(* aligned year therefore gets its statistics reported, computed over the  *)
(* aligned years only (a year with a null value is left out).              *)
(***************************************************************************)
C11_StatisticsOverAlignedYears ==
  /\ CompareRun =>
       LET cdf == compare_df(base_filtered_df, METRIC_MAP[sel.metric],
                             IsCurrencyMetric(sel.metric))
       IN \A src \in StatSources :
            LET al == Where(cdf, LAMBDA r : /\ Usable(r.Original_ENOW)
                                            /\ Usable(SourceValue(r, src)))
                d(r) == SourceValue(r, src) - r.Original_ENOW
            IN al # <<>> =>
                 /\ outcome = "chart"
                 /\ \E k \in 1..Len(stats) :
                      /\ stats[k].source = src
                      /\ stats[k].Mean_Absolute_Error =
                           [num |-> SumSeq(Column(al, LAMBDA r : Abs(d(r)))),
                            den |-> Len(al)]
                      /\ stats[k].Mean_Squared_Error =
                           [num |-> SumSeq(Column(al, LAMBDA r : d(r) * d(r))),
                            den |-> Len(al)]
                      /\ stats[k].Mean_Percent_Difference =
                           [i \in 1..Len(al) |-> [num |-> 100 * d(al[i]),
                                                  den |-> al[i].Original_ENOW]]
  /\ ErrorRun =>
       LET by == sel.grouping_vars \o <<"GeoName">>
           a(r) == r.oldENOW[ErrCol]
           b(r) == r.Open[ErrCol]
       IN \A i \in BaseIdx :
            LET key == GroupKey(base_filtered_df[i], by)
                al == Where(base_filtered_df, LAMBDA r :
                        /\ GroupKey(r, by) = key
                        /\ Usable(a(r)) /\ Usable(b(r)))
            IN (~HasNullKey(base_filtered_df[i], by) /\ al # <<>>) =>
                 /\ outcome = "chart"
                 /\ \E k \in 1..Len(results) :
                      /\ results[k].name = key
                      /\ results[k].Mean_Absolute_Error =
                           [num |-> SumSeq(Column(al, LAMBDA r : Abs(b(r) - a(r)))),
                            den |-> Len(al)]
                      /\ results[k].Mean_Squared_Error =
                           [num |-> SumSeq(Column(al, LAMBDA r :
                                             (b(r) - a(r)) * (b(r) - a(r)))),
                            den |-> Len(al)]
                      /\ results[k].Mean_Percent_Difference =
                           [n \in 1..Len(al) |-> [num |-> 100 * (b(al[n]) - a(al[n])),
                                                  den |-> a(al[n])]]

(***************************************************************************)
(* C12: with 'Exclude Outliers' selected in Error Analysis, Q1 and Q3 are  *)
(* the quartiles of the per-group values of the chosen error metric, and a *)
(* group is kept exactly when its value lies in the closed interval        *)
(* [Q1 - 1.5 * (Q3 - Q1), Q3 + 1.5 * (Q3 - Q1)]; with the option off no    *)
(* group is removed by the fence.                                          *)
(***************************************************************************)
C12_TukeyFenceOnGroupValues ==
  LET groups == Where(ErrorResults(base_filtered_df, sel.grouping_vars, ErrCol),
                      LAMBDA r : r.X_Value.num > 0)
      Y(r) == YValue(r, sel.y_axis)
      ys == Column(groups, Y)
      Q1 == Quantile(ys, 1)
      Q3 == Quantile(ys, 3)
      lower == RSub(Q1, RMul(RSub(Q3, Q1), 3, 2))
      upper == RAdd(Q3, RMul(RSub(Q3, Q1), 3, 2))
      InFence(r) == Y(r).den # 0 /\ RLeq(lower, Y(r)) /\ RLeq(Y(r), upper)
  IN (ErrorRun /\ groups # <<>>) =>
       /\ outcome = "chart"
       /\ results = IF sel.exclude_outliers THEN Where(groups, InFence) ELSE groups

(***************************************************************************)
(* Vocabulary of the filter predicates.  A predicate is the set of the     *)
(* positions of the panel rows it accepts; a table is the sequence of the  *)
(* positions of its rows.                                                  *)
(***************************************************************************)
PanelIdx == 1..Len(ActivePanel)
WholePanel == SubSeq([i \in PanelIdx |-> i], 1, Len(ActivePanel))
Accepts(P(_)) == {i \in PanelIdx : P(ActivePanel[i])}
Apply(T, S) == SelectSeq(T, LAMBDA i : i \in S)
RowsAt(T) == [k \in 1..Len(T) |-> ActivePanel[T[k]]]

RECURSIVE Cascade(_, _)
\* the table after the predicates of a sequence, the first one first
Cascade(T, preds) ==
  IF preds = <<>> THEN T ELSE Cascade(Apply(T, Head(preds)), Tail(preds))

RECURSIVE Backwards(_)
Backwards(q) == IF q = <<>> THEN <<>> ELSE Backwards(Tail(q)) \o <<Head(q)>>

\* the rows of the state with an abbreviation
OfState(abbr) == Accepts(LAMBDA r : r.state = abbr)

\* the predicates the last run applied, read from its selections
AppliedPredicates ==
  LET year == Accepts(LAMBDA r : r.Year >= sel.year_range[1] /\ r.Year <= sel.year_range[2])
      scale == Accepts(LAMBDA r : r.GeoScale = sel.scale)
      level == Accepts(LAMBDA r : r.aggregation = sel.agg)
      sector == IF sel.unit \in {"All Marine Sectors", "All Marine Industries"}
                THEN PanelIdx ELSE Accepts(LAMBDA r : r.OceanSector = sel.unit)
      name == IF sel.geo \in {"All Coastal States", "All Regions"}
              THEN PanelIdx ELSE Accepts(LAMBDA r : r.GeoName = sel.geo)
  IN CASE sel.mode = "County Estimates from Public QCEW Data" ->
            <<scale, level, year, name, Accepts(LAMBDA r : r.stateName = sel.state),
              sector>>
       [] sel.mode \in estimate_modes -> <<scale, level, year, name, sector>>
       [] sel.mode = "Error Analysis" ->
            <<level, scale, year,
              IF sel.state = "All Coastal States" THEN PanelIdx
              ELSE OfState(StateAbbr(Where(ActivePanel, LAMBDA x : x.GeoScale = "State"),
                                     sel.state)),
              sector>>
       [] OTHER ->
            <<year, scale,
              IF sel.geo # "All Coastal Counties"
              THEN Accepts(LAMBDA r : r.GeoName = sel.geo)
              ELSE IF sel.state # "All Coastal States"
              THEN Accepts(LAMBDA r : r.GeoName = sel.state) ELSE PanelIdx,
              level,
              IF sel.industry # "All Marine Industries"
              THEN Accepts(LAMBDA r : r.OceanIndustry = sel.industry)
              ELSE sector>>

(***************************************************************************)
(* C13: the filters a mode applies are conjunctive: the filtered table is  *)
(* the rows of the panel that satisfy all applied predicates, and applying *)
(* the predicates in another order (the opposite one, or any two of them   *)
(* exchanged) gives the same rows.                                         *)
(***************************************************************************)
C13_FiltersConjunctive ==
  Filtered =>
    \A preds \in {AppliedPredicates}, whole \in {WholePanel} :
      LET every == {i \in PanelIdx : \A k \in 1..Len(preds) : i \in preds[k]}
      IN /\ base_filtered_df = RowsAt(Apply(whole, every))
         /\ base_filtered_df = RowsAt(Cascade(whole, Backwards(preds)))
         /\ \A i, j \in 1..Len(preds) :
              i < j => Apply(Apply(whole, preds[i]), preds[j])
                         = Apply(Apply(whole, preds[j]), preds[i])

\* a geography, a sector and a part of the years were selected together,
\* each of the three predicates alone rejecting a row the other two accept
C13_Witness ==
  /\ Filtered
  /\ sel.mode = "State Estimates from Public QCEW Data"
  /\ sel.geo # "All Coastal States"
  /\ sel.unit \notin {"All Marine Sectors", "All Marine Industries"}
  /\ base_filtered_df # <<>>
  /\ LET preds == AppliedPredicates
     IN \A k \in 3..5 :
          \E r \in PanelIdx : /\ r \notin preds[k]
                              /\ \A n \in (1..5) \ {k} : r \in preds[n]

(***************************************************************************)
(* Vocabulary of the runs.                                                 *)
(***************************************************************************)
RunEnded == outcome \notin {NoStr, "running"}
Exceptions == {"ValueError", "KeyError", "NameError"}

\* the scale a run asks for: the one of its mode, or the selected one (the
\* State scale is the default of the two comparison modes)
RequestedScale ==
  CASE sel.mode = "State Estimates from Public QCEW Data" -> "State"
    [] sel.mode = "County Estimates from Public QCEW Data" -> "County"
    [] sel.mode = "Regional Estimates from Public QCEW Data" -> "Region"
    [] OTHER -> IF sel.scale = NoStr THEN "State" ELSE sel.scale

RunPanel == IF sel.mode \in estimate_modes THEN open_enow_data ELSE comparison_data

(***************************************************************************)
(* C14: when the loaded panel has no rows at the geography scale the mode  *)
(* requests, the run ends with an empty result and the 'no data' message,  *)
(* never with an unhandled exception.                                      *)
(***************************************************************************)
C14_EmptyScaleNoException ==
  (/\ RunEnded
   /\ RunPanel.loaded
   /\ outcome # "stopped"
   /\ \A i \in 1..Len(RunPanel.rows) : RunPanel.rows[i].GeoScale # RequestedScale)
    => /\ outcome = "warning"
       /\ chart_data_to_download = <<>>
       /\ plot_df = <<>>

(***************************************************************************)
(* C15: a mode shows the 'Data not found' error exactly when the file it   *)
(* reads is missing, and it then stops before any selection, filter or     *)
(* chart; the estimate modes read only openENOWinput.csv, Compare and      *)
(* Error Analysis only enow_version_comparisons.csv, so a mode whose file  *)
(* is present runs whether or not the other file is missing.               *)
(***************************************************************************)
C15_OnlyOwnSourceMatters ==
  RunEnded =>
    /\ outcome = "data_not_found" <=>
         IF sel.mode \in estimate_modes THEN ~open_enow_data.loaded
                                        ELSE ~comparison_data.loaded
    /\ outcome = "data_not_found" =>
         /\ sel = [NoSel EXCEPT !.mode = plot_mode]
         /\ base_filtered_df = <<>> /\ path = NoStr
         /\ chart_data_to_download = <<>> /\ plot_df = <<>>
         /\ results = <<>> /\ stats = <<>>

\* with one file missing, a mode that reads the other one drew its chart
C15_Witness ==
  /\ open_enow_data.loaded /\ ~comparison_data.loaded
  /\ EstimateRun /\ outcome = "chart"
  /\ chart_data_to_download # <<>>

(***************************************************************************)
(* Vocabulary of the year range.                                           *)
(***************************************************************************)
\* the frame whose years bound the slider of the last run
SliderFrame ==
  CASE sel.mode = "State Estimates from Public QCEW Data" ->
         state_level_data(open_enow_data.rows)
    [] sel.mode = "County Estimates from Public QCEW Data" ->
         CountyActiveDf(open_enow_data.rows)
    [] sel.mode = "Regional Estimates from Public QCEW Data" ->
         RegionActiveDf(open_enow_data.rows)
    [] OTHER -> comparison_data.rows

\* the range the slider of the last run offers before it is touched
OfferedRange ==
  LET lo == MinYear(SliderFrame)
      hi == MaxYear(SliderFrame)
  IN CASE sel.mode \in estimate_modes -> EstimateDefaultRange(lo, hi)
       [] sel.mode = "Error Analysis" -> ErrorDefaultRange(lo, hi)
       [] OTHER -> CompareDefaultRange(lo, hi)

(***************************************************************************)
(* C16: for every loaded panel and every mode, the default year range and  *)
(* the year range used to filter satisfy                                   *)
(* panel_min_year <= lower <= upper <= panel_max_year, and the run does    *)
(* not end with an error of the year slider.                               *)
(***************************************************************************)
C16_YearRangeWithinPanel ==
  (RunEnded /\ RunPanel.loaded /\ SliderFrame # <<>>) =>
    LET lo == MinYear(SliderFrame)
        hi == MaxYear(SliderFrame)
    IN /\ lo <= OfferedRange[1]
       /\ OfferedRange[1] <= OfferedRange[2]
       /\ OfferedRange[2] <= hi
       /\ outcome # "StreamlitAPIException"
       /\ Filtered => /\ lo <= sel.year_range[1]
                      /\ sel.year_range[1] <= sel.year_range[2]
                      /\ sel.year_range[2] <= hi

C18_PanelsNeverChange ==
  [][/\ open_enow_data' = open_enow_data
     /\ comparison_data' = comparison_data]_vars

\* a run filtered the panel down to fewer rows and displayed a rescaled copy
C18_Witness ==
  /\ EstimateRun /\ outcome = "chart"
  /\ base_filtered_df # <<>>
  /\ Len(base_filtered_df) < Len(open_enow_data.rows)
  /\ \E i \in 1..Len(plot_df) : /\ plot_df[i].Estimate_value.den = Million
                               /\ plot_df[i].Estimate_value.num > 0
  /\ \E i \in 1..Len(open_enow_data.rows) :
       open_enow_data.rows[i].Open[SelCol] = NaN

(***************************************************************************)
(* C19: in every path that charts a currency metric the division by        *)
(* 1,000,000 is applied to the per-(year, group) sums, after the           *)
(* summation, never to the individual rows that are summed afterwards; a   *)
(* divided value is therefore the only one of its (year, group) pair and   *)
(* is the total of the pair.  Employment and Establishments are never      *)
(* divided.                                                                *)
(***************************************************************************)
C19_DivisionAfterSummation ==
  (EstimateRun /\ outcome = "chart") =>
    \A i \in 1..Len(plot_df) :
      IF IsCurrencyMetric(sel.metric)
      THEN /\ plot_df[i].Estimate_value.den = Million
           /\ \A j \in 1..Len(plot_df) :
                (plot_df[j].Year = plot_df[i].Year /\ plot_df[j].Group = plot_df[i].Group)
                  => j = i
           /\ plot_df[i].Estimate_value.num =
                SumSeq(Column(Where(chart_data_to_download, LAMBDA r :
                                      /\ r.Year = plot_df[i].Year
                                      /\ r.Group = plot_df[i].Group),
                              LAMBDA r : r.Estimate_value))
      ELSE plot_df[i].Estimate_value.den = 1

(***************************************************************************)
(* C20: in the top-contributors decomposition, geographies with equal      *)
(* values in a year are ranked in the order of their rows in the filtered  *)
(* input: of two tied geographies the later one keeps its name only if the *)
(* earlier one does, whatever their names.                                 *)
(***************************************************************************)
C20_TiesByInputOrder ==
  Decomposed =>
    \A y \in YearsInRange :
      LET valued == ValuedRows(y)
      IN \A i, j \in 1..Len(valued) :
           (/\ i < j
            /\ valued[i].Open[SelCol] = valued[j].Open[SelCol]
            /\ valued[j].GeoName \in NamedGroups(y))
             => valued[i].GeoName \in NamedGroups(y)

\* of two tied geographies the earlier one kept its name and the later one,
\* whose name comes first in the alphabet, went to the remainder
C20_Witness ==
  /\ Decomposed
  /\ \E y \in YearsInRange :
       LET valued == ValuedRows(y)
       IN \E i, j \in 1..Len(valued) :
            /\ i < j
            /\ valued[i].Open[SelCol] = valued[j].Open[SelCol]
            /\ valued[i].GeoName \in NamedGroups(y)
            /\ valued[j].GeoName \notin NamedGroups(y)
            /\ AlphaIndex(valued[j].GeoName) < AlphaIndex(valued[i].GeoName)

(***************************************************************************)
(* Vocabulary of the chart paths.                                          *)
(***************************************************************************)
AllGeosSelected == sel.geo \in {"All Coastal States", "All Regions"}
OneUnitSelected == sel.unit \notin {"All Marine Sectors", "All Marine Industries"}
FilteredTotal == SumSkipNaN(Column(base_filtered_df, LAMBDA r : r.Open[SelCol]))

(***************************************************************************)
(* C21 as claimed: in the estimate modes the top-contributors              *)
(* decomposition is computed exactly when an 'all geographies' option is   *)
(* selected together with one specific sector or industry.                 *)
(***************************************************************************)
C21_DecompositionExactlyWhenSelected ==
  EstimateRun => (Decomposed <=> (AllGeosSelected /\ OneUnitSelected))

(***************************************************************************)
(* C21 as amended: the decomposition is computed exactly when an 'all      *)
(* geographies' option is selected together with one specific sector or    *)
(* industry and the filtered rows have a positive total of the metric;     *)
(* with such a selection and no positive total the run shows the warning.  *)
(* It is never computed in County mode, nor for a single geography or an   *)
(* 'All Marine Sectors' / 'All Marine Industries' selection.               *)
(***************************************************************************)
C21_DecompositionWhenSelectedAndPositive ==
  EstimateRun =>
    /\ Decomposed <=> (AllGeosSelected /\ OneUnitSelected /\ FilteredTotal > 0)
    /\ (AllGeosSelected /\ OneUnitSelected /\ FilteredTotal = 0) =>
         (outcome = "warning" /\ chart_data_to_download = <<>>)
    /\ Decomposed => sel.mode # "County Estimates from Public QCEW Data"
    /\ path = "decomposition" <=> (AllGeosSelected /\ OneUnitSelected)

\* all states with one industry selected: the decomposition was drawn
C21_Witness ==
  /\ Decomposed
  /\ sel.agg = "Industry"
  /\ AllGeosSelected /\ OneUnitSelected
  /\ chart_data_to_download # <<>>

(***************************************************************************)
(* Vocabulary of the pairwise comparisons.                                 *)
(***************************************************************************)
OtherSource(src) ==
  IF src = "Open ENOW Estimate" THEN "Public QCEW data, no imputed values"
  ELSE "Open ENOW Estimate"

\* the comparison table with the series of one source blanked
Without(cdf, src) ==
  [k \in 1..Len(cdf) |->
     IF src = "Open ENOW Estimate" THEN [cdf[k] EXCEPT !.Open_ENOW_Estimate = NaN]
     ELSE [cdf[k] EXCEPT !.Public_QCEW = NaN]]

(***************************************************************************)
(* C22: in Compare mode the two pairwise comparisons are independent: a    *)
(* year in which the reference and one estimate have a value and only the  *)
(* other estimate is missing still contributes to the statistics of the    *)
(* first estimate, and these statistics are the ones obtained for any      *)
(* values of the other estimate.                                           *)
(***************************************************************************)
C22_PairwiseComparisonsIndependent ==
  CompareRun =>
    LET cdf == compare_df(base_filtered_df, METRIC_MAP[sel.metric],
                          IsCurrencyMetric(sel.metric))
    IN \A src \in StatSources : \A k \in 1..Len(cdf) :
         (/\ cdf[k].Original_ENOW # NaN
          /\ SourceValue(cdf[k], src) # NaN
          /\ SourceValue(cdf[k], OtherSource(src)) = NaN)
           => /\ outcome = "chart"
              /\ \E n \in 1..Len(stats) :
                   /\ stats[n].source = src
                   /\ \E i \in 1..Len(stats[n].valid_compare) :
                        stats[n].valid_compare[i].Year = cdf[k].Year
                   /\ stats[n].Mean_Absolute_Error =
                        CompareStats(Without(cdf, OtherSource(src)), src).Mean_Absolute_Error
                   /\ stats[n].Mean_Squared_Error =
                        CompareStats(Without(cdf, OtherSource(src)), src).Mean_Squared_Error
                   /\ stats[n].Mean_Percent_Difference =
                        CompareStats(Without(cdf, OtherSource(src)), src).Mean_Percent_Difference

(***************************************************************************)
(* C23: a run in Compare mode with the comparison data loaded and the      *)
(* required columns present completes without an unhandled exception: it   *)
(* ends with the chart and statistics or with the no-data warning, every   *)
(* name it reads having been assigned on the way.                          *)
(***************************************************************************)
C23_CompareRunCompletes ==
  CompareRun =>
    /\ outcome \in {"chart", "warning"}
    /\ {"is_currency", "y_label", "tooltip_format"}
         \subseteq TopLevelNames \cup CompareBlockNames

(***************************************************************************)
(* C24: a run in Error Analysis mode in which at least one group has a row *)
(* with both the reference and the estimate value completes without an     *)
(* unhandled exception and yields, before any outlier exclusion, one       *)
(* result row per such group whose mean of the two means is greater than   *)
(* 0, the plotted value being the chosen error metric of the group.        *)
(***************************************************************************)
C24_ErrorAnalysisRunCompletes ==
  LET res == ErrorResults(base_filtered_df, sel.grouping_vars, ErrCol)
      positive == Where(res, LAMBDA r : r.X_Value.num > 0)
  IN (ErrorRun /\ res # <<>>) =>
       /\ outcome \notin Exceptions
       /\ outcome = "chart"
       /\ ~sel.exclude_outliers => results = positive
       /\ \A k \in 1..Len(results) :
            /\ results[k].X_Value.num > 0
            /\ \E n \in 1..Len(res) : res[n] = results[k]

(***************************************************************************)
(* C25: in Compare mode with a county selected, every row of the filtered  *)
(* table belongs to the selected state; the rows of a county of the same   *)
(* name in another state are not included.                                 *)
(***************************************************************************)
C25_CountyRowsOfSelectedState ==
  (CompareRun /\ sel.geo # "All Coastal Counties") =>
    LET state_df == Where(comparison_data.rows, LAMBDA r : r.GeoScale = "State")
        selected_state_abbr == StateAbbr(state_df, sel.state)
    IN \A i \in BaseIdx :
         /\ base_filtered_df[i].GeoName = sel.geo
         /\ base_filtered_df[i].state = selected_state_abbr

(***************************************************************************)
(* C26: the display mode is always one of the five defined modes; it is    *)
(* 'State Estimates from Public QCEW Data' before the first click, it      *)
(* changes only in a step that is a click on a mode button and is then the *)
(* mode of that button, and every run renders exactly one of the five mode *)
(* buttons as selected, the one of the display mode.                       *)
(***************************************************************************)
C26_ModeFollowsButtons ==
  /\ plot_mode = "State Estimates from Public QCEW Data"
  /\ [](plot_mode \in estimate_modes \cup {"Compare to original ENOW", "Error Analysis"})
  /\ [](outcome # NoStr =>
          /\ Cardinality({l \in DOMAIN button_map : button_type[l] = "primary"}) = 1
          /\ \A l \in DOMAIN button_map :
               button_type[l] = (IF plot_mode = button_map[l] THEN "primary"
                                                              ELSE "secondary"))
  /\ [][plot_mode' # plot_mode =>
          /\ ClickButton
          /\ \E l \in DOMAIN button_map :
               plot_mode' = button_map[l] /\ button_type'[l] = "primary"]_vars

\* after a click on 'Regions' and some reruns the Regions chart is shown with
\* its button selected
C26_Witness ==
  /\ plot_mode = "Regional Estimates from Public QCEW Data"
  /\ outcome = "chart"
  /\ button_type["Regions"] = "primary"
  /\ button_type["States"] = "secondary"

\* an estimate run that reached the end of the script: it was not stopped by
\* the 'Data not found' error and no exception ended it
EstimateCompleted ==
  /\ sel.mode \in estimate_modes
  /\ RunEnded
  /\ outcome \notin Exceptions \cup {"data_not_found", "StreamlitAPIException"}

(***************************************************************************)
(* C27: a completed run of an estimate mode renders either a chart or the  *)
(* warning 'No data available for the selected filters.', never both and   *)
(* never neither; the download button is offered (the download table is    *)
(* not empty) exactly when the chart is rendered, the table then has at    *)
(* least one row and as many rows as the chart shows, and under the        *)
(* warning nothing is offered.                                             *)
(***************************************************************************)
C27_ChartOrWarningAndDownload ==
  EstimateCompleted =>
    /\ outcome \in {"chart", "warning"}
    /\ path \in {"stacked", "decomposition", "bar"}
    /\ outcome = "chart" <=> chart_data_to_download # <<>>
    /\ outcome = "chart" =>
         Len(chart_data_to_download) >= 1 /\ Len(plot_df) = Len(chart_data_to_download)
    /\ outcome = "warning" => chart_data_to_download = <<>>

\* a bar chart whose only bar is zero is still a chart with a download
C27_Witness ==
  /\ EstimateCompleted
  /\ outcome = "chart"
  /\ path = "bar"
  /\ Len(chart_data_to_download) >= 1
  /\ \A i \in 1..Len(chart_data_to_download) : chart_data_to_download[i].Estimate_value = 0

====
